---- MODULE Spec2Model ----
(***************************************************************************)
(* Model of rabix/runtime/engine/base.py: the Engine base class, the       *)
(* SequentialEngine and the MultiprocessingEngine with its resource        *)
(* ledger.  The task graph (rabix.runtime.tasks) and the Job class         *)
(* (rabix.runtime.jobs) are modelled from their documented contract.       *)
(***************************************************************************)
EXTENDS Integers, Sequences, FiniteSets, TLC

\* ---------------------------------------------------------------- bounds
\* tasks and jobs the caller builds, and calls of Engine.run
MaxTasks == 3
MaxJobs == 2
MaxRuns == 2
\* the machine: multiprocessing.cpu_count() and CONFIG['engine']['ram_mb']
TotalCpu == 2
TotalRam == 2

Tasks == 1..MaxTasks
Jobs == 1..MaxJobs

\* Resources.CPU_ALL sentinel (rabix.runtime.tasks.Resources): a negative
\* count, so that "res.cpu > self.available_cpu" never rejects it
CPU_ALL == -1

\* Task.* and Job.* status constants
WAITING == "WAITING"
READY == "READY"
RUNNING == "RUNNING"
FINISHED == "FINISHED"
FAILED == "FAILED"
QUEUED == "QUEUED"

VARIABLES
    engine,          \* which Engine subclass was constructed
    taskJob,         \* input: the job owning each task
    deps,            \* dependency edges <<pred, succ>> of the jobs' task graphs
    resources,       \* task.resources (runner.get_requirements())
    jobs,            \* Engine.jobs (registered job ids)
    jobStatus,       \* job.status
    errorMessage,    \* job.error_message: 0 (unset) or the task_id it names
    status,          \* task.status
    result,          \* task.result: "None", "value" or "error"
    running,         \* MultiprocessingEngine.running (sequence of tasks)
    available_ram,
    available_cpu,
    multi_cpu_lock,
    asyncResult,     \* AsyncResult of a task: "none", "pending", or the outcome fetched
    pc,              \* position of the control thread
    jobIter,         \* jobs still to be visited by the for loop of run_all
    curJob,          \* job of the loop body in progress (0 when none)
    ready,           \* tasks of the current ready snapshot still to be visited
    curTask,         \* task being run by SequentialEngine.run_task (0 when none)
    hookLog,         \* per task: the sequence of hook calls and status writes
    runs             \* number of calls of Engine.run so far

inputVars == <<engine, taskJob>>
graphVars == <<deps, resources>>
ledgerVars == <<available_ram, available_cpu, multi_cpu_lock>>
vars == <<engine, taskJob, deps, resources, jobs, jobStatus, errorMessage,
          status, result, running, available_ram, available_cpu,
          multi_cpu_lock, asyncResult, pc, jobIter, curJob, ready, curTask,
          hookLog, runs>>

\* ------------------------------------------------------------ task graph
Preds(t) == {p \in Tasks : <<p, t>> \in deps}
Succs(t) == {s \in Tasks : <<t, s>> \in deps}
TasksOf(j) == {t \in Tasks : taskJob[t] = j}

\* job.tasks.get_ready_tasks(): the ready frontier of job j under statuses st
get_ready_tasks(st, j) == {t \in TasksOf(j) : st[t] = READY}

\* job.tasks.resolve_task(task): promote the dependents whose predecessors
\* are now all FINISHED
resolve_task(st, t) ==
    [d \in Tasks |->
        IF d \in Succs(t) /\ st[d] = WAITING
           /\ \A p \in Preds(d) : st[p] = FINISHED
        THEN READY ELSE st[d]]

\* mutant of iter_ready: tasks still WAITING are yielded as well
iter_ready_waiting(js, st) ==
    {t \in Tasks : taskJob[t] \in js /\ st[t] \in {READY, WAITING}}

\* Engine._iter_ready: the (job, task) pairs of every registered job's frontier
iter_ready(js, st) ==
    {t \in Tasks : taskJob[t] \in js /\ t \in get_ready_tasks(st, taskJob[t])}

\* ------------------------------------------------------- resource ledger
\* The requests of the tasks: the whole machine, one core, and every core
\* as an ordinary count
ResourceChoices ==
    { [cpu |-> CPU_ALL, mem_mb |-> 1],
      [cpu |-> 1, mem_mb |-> 1],
      [cpu |-> TotalCpu, mem_mb |-> 0] }

\* A request for more memory than the machine has
OversizeResources == [cpu |-> 1, mem_mb |-> TotalRam + 1]

\* The assignments of requests to the tasks T of newly built jobs; the last
\* task may be the one whose request can never be satisfied
ResourceAssignments(T) ==
    {r \in [T -> ResourceChoices \cup {OversizeResources}] :
        \A t \in T : r[t] = OversizeResources => t = MaxTasks}

\* b is reachable from a along the edges d (edges go from lower to higher ids)
RECURSIVE Reaches(_, _, _)
Reaches(d, a, b) ==
    a = b \/ \E e \in d : e[1] = a /\ e[2] <= b /\ Reaches(d, e[2], b)

\* The dependency graphs over the tasks T of newly built jobs: edges inside
\* a job, from a lower to a higher task id, and no edge that only repeats a
\* longer path (such an edge changes nothing: its source is FINISHED
\* whenever the last task of the path is)
GraphChoices(T) ==
    {d \in SUBSET {e \in T \X T : e[1] < e[2] /\ taskJob[e[1]] = taskJob[e[2]]} :
        \A e \in d : ~\E f \in d \ {e} :
            f[1] = e[1] /\ Reaches(d \ {e}, f[2], e[2])}

\* mutant of acquire_resources: the ordinary cpu count is not compared with
\* available_cpu
acquire_resources_nocpu(res, ram, cpu, lock) ==
    IF res.mem_mb > ram
    THEN [ok |-> FALSE, ram |-> ram, cpu |-> cpu, lock |-> lock]
    ELSE IF res.cpu = CPU_ALL /\ (lock \/ cpu # TotalCpu)
    THEN [ok |-> FALSE, ram |-> ram, cpu |-> cpu, lock |-> lock]
    ELSE IF res.cpu = CPU_ALL
    THEN [ok |-> TRUE, ram |-> ram - res.mem_mb, cpu |-> cpu, lock |-> TRUE]
    ELSE [ok |-> TRUE, ram |-> ram - res.mem_mb, cpu |-> cpu - res.cpu, lock |-> lock]

\* mutant of acquire_resources: a CPU_ALL request is admitted without the
\* test of the lock and of the idle machine
acquire_resources_nolock(res, ram, cpu, lock) ==
    IF res.mem_mb > ram
    THEN [ok |-> FALSE, ram |-> ram, cpu |-> cpu, lock |-> lock]
    ELSE IF res.cpu > cpu
    THEN [ok |-> FALSE, ram |-> ram, cpu |-> cpu, lock |-> lock]
    ELSE IF res.cpu = CPU_ALL
    THEN [ok |-> TRUE, ram |-> ram - res.mem_mb, cpu |-> cpu, lock |-> TRUE]
    ELSE [ok |-> TRUE, ram |-> ram - res.mem_mb, cpu |-> cpu - res.cpu, lock |-> lock]

\* mutant of acquire_resources: the memory request is not compared with
\* available_ram
acquire_resources_nomem(res, ram, cpu, lock) ==
    IF res.cpu = CPU_ALL /\ (lock \/ cpu # TotalCpu)
    THEN [ok |-> FALSE, ram |-> ram, cpu |-> cpu, lock |-> lock]
    ELSE IF res.cpu > cpu
    THEN [ok |-> FALSE, ram |-> ram, cpu |-> cpu, lock |-> lock]
    ELSE IF res.cpu = CPU_ALL
    THEN [ok |-> TRUE, ram |-> ram - res.mem_mb, cpu |-> cpu, lock |-> TRUE]
    ELSE [ok |-> TRUE, ram |-> ram - res.mem_mb, cpu |-> cpu - res.cpu, lock |-> lock]

\* mutant of acquire_resources: the memory is taken as soon as it is found
\* to fit, before the cpu tests that may still reject the request
acquire_resources_eager(res, ram, cpu, lock) ==
    IF res.mem_mb > ram
    THEN [ok |-> FALSE, ram |-> ram, cpu |-> cpu, lock |-> lock]
    ELSE IF res.cpu = CPU_ALL /\ (lock \/ cpu # TotalCpu)
    THEN [ok |-> FALSE, ram |-> ram - res.mem_mb, cpu |-> cpu, lock |-> lock]
    ELSE IF res.cpu > cpu
    THEN [ok |-> FALSE, ram |-> ram - res.mem_mb, cpu |-> cpu, lock |-> lock]
    ELSE IF res.cpu = CPU_ALL
    THEN [ok |-> TRUE, ram |-> ram - res.mem_mb, cpu |-> cpu, lock |-> TRUE]
    ELSE [ok |-> TRUE, ram |-> ram - res.mem_mb, cpu |-> cpu - res.cpu, lock |-> lock]

\* MultiprocessingEngine.acquire_resources: the ledger after the call and
\* the value returned
acquire_resources(res, ram, cpu, lock) ==
    IF res.mem_mb > ram
    THEN [ok |-> FALSE, ram |-> ram, cpu |-> cpu, lock |-> lock]
    ELSE IF res.cpu = CPU_ALL /\ (lock \/ cpu # TotalCpu)
    THEN [ok |-> FALSE, ram |-> ram, cpu |-> cpu, lock |-> lock]
    ELSE IF res.cpu > cpu
    THEN [ok |-> FALSE, ram |-> ram, cpu |-> cpu, lock |-> lock]
    ELSE IF res.cpu = CPU_ALL
    THEN [ok |-> TRUE, ram |-> ram - res.mem_mb, cpu |-> cpu, lock |-> TRUE]
    ELSE [ok |-> TRUE, ram |-> ram - res.mem_mb, cpu |-> cpu - res.cpu, lock |-> lock]

\* mutant of release_resources: the cpu count is not given back
release_resources_leak(res, ram, cpu, lock) ==
    IF res.cpu = CPU_ALL
    THEN [ram |-> ram + res.mem_mb, cpu |-> cpu, lock |-> FALSE]
    ELSE [ram |-> ram + res.mem_mb, cpu |-> cpu, lock |-> lock]

\* MultiprocessingEngine.release_resources: the ledger after the call
release_resources(res, ram, cpu, lock) ==
    IF res.cpu = CPU_ALL
    THEN [ram |-> ram + res.mem_mb, cpu |-> cpu, lock |-> FALSE]
    ELSE [ram |-> ram + res.mem_mb, cpu |-> cpu + res.cpu, lock |-> lock]

\* mutant of update_jobs: all() instead of any() in the test for failure
update_jobs_all(js, st, jst) ==
    [j \in Jobs |->
        IF j \notin js \/ get_ready_tasks(st, j) # {} THEN jst[j]
        ELSE IF TasksOf(j) # {} /\ \A t \in TasksOf(j) : st[t] # FINISHED THEN FAILED
        ELSE FINISHED]

\* Engine._update_jobs_check_ready: the job statuses after the call
update_jobs(js, st, jst) ==
    [j \in Jobs |->
        IF j \notin js \/ get_ready_tasks(st, j) # {} THEN jst[j]
        ELSE IF \E t \in TasksOf(j) : st[t] # FINISHED THEN FAILED
        ELSE FINISHED]

\* Engine._update_jobs_check_ready: the value returned
has_ready(js, st) == \E j \in js : get_ready_tasks(st, j) # {}

\* ------------------------------------------------------------------ Init
DefaultResources == [cpu |-> 1, mem_mb |-> 1]

\* The assignments of tasks to jobs, up to renaming of tasks and jobs: tasks
\* are numbered job by job and a job has at least as many tasks as the next;
\* at most one job is built without tasks
TaskJobChoices ==
    {f \in [Tasks -> Jobs] :
        /\ \A a, b \in Tasks : a < b => f[a] <= f[b]
        /\ \A j \in Jobs : j + 1 \in Jobs =>
              Cardinality({t \in Tasks : f[t] = j})
                >= Cardinality({t \in Tasks : f[t] = j + 1})
        /\ \A j \in Jobs : j + 1 \in Jobs => \E t \in Tasks : f[t] = j}

\* Engine.__init__ / MultiprocessingEngine.__init__: no job registered, the
\* ledger at its totals, nothing in flight; the tasks the caller will build
\* are WAITING until their job is built
Constructed ==
    /\ deps = {}
    /\ resources = [t \in Tasks |-> DefaultResources]
    /\ jobs = {}
    /\ jobStatus = [j \in Jobs |-> QUEUED]
    /\ errorMessage = [j \in Jobs |-> 0]
    /\ status = [t \in Tasks |-> WAITING]
    /\ result = [t \in Tasks |-> "None"]
    /\ running = <<>>
    /\ available_ram = TotalRam
    /\ available_cpu = TotalCpu
    /\ multi_cpu_lock = FALSE
    /\ asyncResult = [t \in Tasks |-> "none"]
    /\ pc = "idle"
    /\ jobIter = {}
    /\ curJob = 0
    /\ ready = {}
    /\ curTask = 0
    /\ hookLog = [t \in Tasks |-> <<>>]
    /\ runs = 0

Init ==
    /\ engine \in {"SequentialEngine", "MultiprocessingEngine"}
    /\ taskJob \in TaskJobChoices
    /\ Constructed

Log(t, events) == [hookLog EXCEPT ![t] = @ \o events]

\* ------------------------------------------------------------ Engine.run
\* the tasks of the jobs of J that are not registered yet
NewTasks(J) == {t \in Tasks : taskJob[t] \in J \ jobs}

\* Engine.run(*jobs): the caller has built the jobs of J that are new (task
\* graph d, requests r, the tasks without predecessors READY); run registers
\* J and enters the engine's run_all
Register(J, d, r) ==
    /\ pc = "idle"
    /\ runs < MaxRuns
    /\ runs' = runs + 1
    /\ jobs' = jobs \cup J
    /\ deps' = deps \cup d
    /\ resources' = [t \in Tasks |->
                       IF t \in NewTasks(J) THEN r[t] ELSE resources[t]]
    /\ status' = [t \in Tasks |->
                    IF t \notin NewTasks(J) THEN status[t]
                    ELSE IF \E e \in d : e[2] = t THEN WAITING ELSE READY]
    /\ IF engine = "SequentialEngine"
       THEN /\ pc' = "seq_jobs"
            /\ jobIter' = jobs'
            /\ ready' = {}
       ELSE /\ jobIter' = {}
            /\ ready' = iter_ready(jobs', status')
            /\ pc' = IF ready' = {} THEN "mp_poll" ELSE "mp_dispatch"
    /\ curJob' = 0
    /\ UNCHANGED <<inputVars, jobStatus, errorMessage, result, running,
                   ledgerVars, asyncResult, curTask, hookLog>>

\* Engine.run, for every task graph and every assignment of requests the
\* caller may have built
Run(J) ==
    /\ pc = "idle"
    /\ runs < MaxRuns
    /\ \E T \in {NewTasks(J)} :
       \E d \in GraphChoices(T) :
       \E r \in IF engine = "SequentialEngine"
                THEN {[t \in T |-> DefaultResources]}
                ELSE ResourceAssignments(T) :
          Register(J, d, r)

\* A request for more cores than the machine has
OversizeCpu == [cpu |-> TotalCpu + 1, mem_mb |-> 0]

\* The assignments of requests to tasks T that do not depend on one another:
\* such tasks are interchangeable (the frontier is visited in any order), so
\* the requests are listed by non-decreasing cpu; the last task may be one
\* whose request can never be satisfied, for its memory or for its cores
IndependentAssignments(T) ==
    {r \in [T -> ResourceChoices \cup {OversizeResources, OversizeCpu}] :
        /\ \A t \in T : r[t] \in {OversizeResources, OversizeCpu} => t = MaxTasks
        /\ \A a, b \in T : (a < b /\ b < MaxTasks) => r[a].cpu <= r[b].cpu}

\* Engine.run, for jobs whose tasks do not depend on one another (all of
\* them are ready at once) and every assignment of requests
RunIndependent(J) ==
    /\ pc = "idle"
    /\ runs < MaxRuns
    /\ \E r \in IndependentAssignments(NewTasks(J)) : Register(J, {}, r)

\* ------------------------------------------------------ SequentialEngine
\* mutant of SeqNextJob: the status of the job is not looked at, every
\* registered job is run again
SeqNextJob_noskip(j) ==
    /\ pc = "seq_jobs"
    /\ j \in jobIter
    /\ jobIter' = jobIter \ {j}
    /\ jobStatus' = [jobStatus EXCEPT ![j] = RUNNING]
    /\ curJob' = j
    /\ ready' = get_ready_tasks(status, j)
    /\ pc' = "seq_tasks"
    /\ UNCHANGED <<inputVars, graphVars, jobs, errorMessage, status, result, running,
                   ledgerVars, asyncResult, curTask, hookLog, runs>>

\* run_all: the for loop takes the next job; a job that is not QUEUED is
\* skipped, a QUEUED one becomes RUNNING and _run_job takes its frontier
SeqNextJob(j) ==
    /\ pc = "seq_jobs"
    /\ j \in jobIter
    /\ jobIter' = jobIter \ {j}
    /\ IF jobStatus[j] # QUEUED
       THEN UNCHANGED <<jobStatus, pc, curJob, ready>>
       ELSE /\ jobStatus' = [jobStatus EXCEPT ![j] = RUNNING]
            /\ curJob' = j
            /\ ready' = get_ready_tasks(status, j)
            /\ pc' = "seq_tasks"
    /\ UNCHANGED <<inputVars, graphVars, jobs, errorMessage, status, result, running,
                   ledgerVars, asyncResult, curTask, hookLog, runs>>

\* _run_job / run_task: before_task(task), task.status = RUNNING, then the
\* runner is entered
SeqStartTask(t) ==
    /\ pc = "seq_tasks"
    /\ t \in ready
    /\ hookLog' = Log(t, <<"before_task", RUNNING>>)
    /\ status' = [status EXCEPT ![t] = RUNNING]
    /\ curTask' = t
    /\ pc' = "seq_run"
    /\ UNCHANGED <<inputVars, graphVars, jobs, jobStatus, errorMessage, result, running,
                   ledgerVars, asyncResult, jobIter, curJob, ready, runs>>

\* run_task: the runner returned; after_task, resolve_task, and the frontier
\* is fetched again when the batch is exhausted
SeqTaskOk ==
    /\ pc = "seq_run"
    /\ LET t == curTask
           st1 == [status EXCEPT ![t] = FINISHED]
           st2 == resolve_task(st1, t)
       IN /\ result' = [result EXCEPT ![t] = "value"]
          /\ status' = st2
          /\ hookLog' = Log(t, <<FINISHED, "after_task", "resolve_task">>)
          /\ ready' = IF ready \ {t} # {} THEN ready \ {t}
                      ELSE get_ready_tasks(st2, curJob)
    /\ curTask' = 0
    /\ pc' = "seq_tasks"
    /\ UNCHANGED <<inputVars, graphVars, jobs, jobStatus, errorMessage, running, ledgerVars,
                   asyncResult, jobIter, curJob, runs>>

\* mutant of SeqTaskErr: the failure is recorded but JobError is not raised
SeqTaskErr_noraise ==
    /\ pc = "seq_run"
    /\ LET t == curTask
           st2 == resolve_task([status EXCEPT ![t] = FAILED], t)
       IN /\ result' = [result EXCEPT ![t] = "error"]
          /\ status' = st2
          /\ hookLog' = Log(t, <<FAILED, "after_task", "resolve_task">>)
          /\ ready' = IF ready \ {t} # {} THEN ready \ {t}
                      ELSE get_ready_tasks(st2, curJob)
    /\ curTask' = 0
    /\ pc' = "seq_tasks"
    /\ UNCHANGED <<inputVars, graphVars, jobs, jobStatus, errorMessage, running, ledgerVars,
                   asyncResult, jobIter, curJob, runs>>

\* mutant of SeqTaskErr: JobError is not caught by run_all and ends run
SeqTaskErr_propagate ==
    /\ pc = "seq_run"
    /\ LET t == curTask
       IN /\ result' = [result EXCEPT ![t] = "error"]
          /\ status' = [status EXCEPT ![t] = FAILED]
          /\ hookLog' = Log(t, <<FAILED>>)
    /\ curTask' = 0
    /\ curJob' = 0
    /\ ready' = {}
    /\ jobIter' = {}
    /\ pc' = "idle"
    /\ UNCHANGED <<inputVars, graphVars, jobs, jobStatus, errorMessage, running,
                   ledgerVars, asyncResult, runs>>

\* run_task: the runner raised; _run_job raises JobError, which run_all
\* turns into job.status = FAILED and job.error_message
SeqTaskErr ==
    /\ pc = "seq_run"
    /\ LET t == curTask
       IN /\ result' = [result EXCEPT ![t] = "error"]
          /\ status' = [status EXCEPT ![t] = FAILED]
          /\ hookLog' = Log(t, <<FAILED>>)
          /\ jobStatus' = [jobStatus EXCEPT ![curJob] = FAILED]
          /\ errorMessage' = [errorMessage EXCEPT ![curJob] = t]
    /\ curTask' = 0
    /\ curJob' = 0
    /\ ready' = {}
    /\ pc' = "seq_jobs"
    /\ UNCHANGED <<inputVars, graphVars, jobs, running, ledgerVars, asyncResult, jobIter, runs>>

\* _run_job returned (empty frontier): run_all sets job.status = FINISHED
SeqJobDone ==
    /\ pc = "seq_tasks"
    /\ ready = {}
    /\ jobStatus' = [jobStatus EXCEPT ![curJob] = FINISHED]
    /\ curJob' = 0
    /\ pc' = "seq_jobs"
    /\ UNCHANGED <<inputVars, graphVars, jobs, errorMessage, status, result, running,
                   ledgerVars, asyncResult, jobIter, ready, curTask, hookLog, runs>>

\* run_all: the for loop is exhausted and run returns
SeqReturn ==
    /\ pc = "seq_jobs"
    /\ jobIter = {}
    /\ pc' = "idle"
    /\ UNCHANGED <<inputVars, graphVars, jobs, jobStatus, errorMessage, status, result,
                   running, ledgerVars, asyncResult, jobIter, curJob, ready,
                   curTask, hookLog, runs>>

\* ------------------------------------------------- MultiprocessingEngine
\* _run_ready_tasks visits the frontier job by job: the next pair yielded by
\* _iter_ready belongs to the job in progress while that job has pairs left
NextYield(t) ==
    /\ t \in ready
    /\ (\E u \in ready : taskJob[u] = curJob) => taskJob[t] = curJob

\* _run_ready_tasks, one iteration: acquire_resources; when admitted,
\* before_task, task.status = RUNNING, run_task_async, running.append; after
\* the last pair _run_ready_tasks returns and the polling pass is next
MPDispatch(t) ==
    /\ pc = "mp_dispatch"
    /\ NextYield(t)
    /\ ready' = ready \ {t}
    /\ curJob' = IF ready' = {} THEN 0 ELSE taskJob[t]
    /\ pc' = IF ready' = {} THEN "mp_poll" ELSE "mp_dispatch"
    /\ LET a == acquire_resources(resources[t], available_ram, available_cpu,
                                  multi_cpu_lock)
       IN /\ available_ram' = a.ram
          /\ available_cpu' = a.cpu
          /\ multi_cpu_lock' = a.lock
          /\ IF ~a.ok
             THEN UNCHANGED <<status, asyncResult, running, hookLog>>
             ELSE /\ hookLog' = Log(t, <<"before_task", RUNNING>>)
                  /\ status' = [status EXCEPT ![t] = RUNNING]
                  /\ asyncResult' = [asyncResult EXCEPT ![t] = "pending"]
                  /\ running' = Append(running, t)
    /\ UNCHANGED <<inputVars, graphVars, jobs, jobStatus, errorMessage, result, jobIter,
                   curTask, runs>>

\* process_result: the task's status after get_result_or_raise_error
process_status(outcome) == IF outcome = "ok" THEN FINISHED ELSE FAILED

\* mutant of process_result: release_resources is not called
process_result_norelease(s, t, outcome) ==
    LET st == process_status(outcome)
    IN [status |-> resolve_task([s.status EXCEPT ![t] = st], t),
        result |-> [s.result EXCEPT ![t] = IF st = FINISHED THEN "value" ELSE "error"],
        log |-> [s.log EXCEPT ![t] = @ \o <<st, "after_task", "resolve_task">>],
        async |-> [s.async EXCEPT ![t] = outcome],
        ram |-> s.ram, cpu |-> s.cpu, lock |-> s.lock]

\* process_result(job, task, async_result) on the engine state s: status and
\* result, after_task, release_resources, resolve_task
process_result(s, t, outcome) ==
    LET st == process_status(outcome)
        r == release_resources(resources[t], s.ram, s.cpu, s.lock)
    IN [status |-> resolve_task([s.status EXCEPT ![t] = st], t),
        result |-> [s.result EXCEPT ![t] = IF st = FINISHED THEN "value" ELSE "error"],
        log |-> [s.log EXCEPT ![t] = @ \o <<st, "after_task", "resolve_task">>],
        async |-> [s.async EXCEPT ![t] = outcome],
        ram |-> r.ram, cpu |-> r.cpu, lock |-> r.lock]

\* run_all, the polling pass over running[i..]: obs[t] is what the pool
\* answers for the in-flight task t, "pending" (check_async_result_ready is
\* False) or the outcome with which its worker finished
RECURSIVE poll_pass(_, _, _)
poll_pass(s, i, obs) ==
    IF i > Len(running) THEN s
    ELSE poll_pass(IF obs[running[i]] = "pending" THEN s
                   ELSE process_result(s, running[i], obs[running[i]]),
                   i + 1, obs)

InFlight == {running[i] : i \in 1..Len(running)}

\* mutant of remove_done: the completed items stay in self.running
remove_done_keep(run, rem) == run

\* run_all: self.running without the indices in to_remove
remove_done(run, rem) ==
    SelectSeq([i \in 1..Len(run) |-> IF i \in rem THEN 0 ELSE run[i]],
              LAMBDA x : x # 0)

\* mutant of run_all_done: the in-flight list is not looked at
run_all_done_early(run, js, st) == ~has_ready(js, st)

\* run_all: the test that ends the loop, "not self.running and not has_ready"
run_all_done(run, js, st) == run = <<>> /\ ~has_ready(js, st)

\* run_all, the polling pass and what follows it, for any answers obs of the
\* pool: with completions, drop them from running, _update_jobs_check_ready,
\* and return when nothing is in flight and nothing is ready; without
\* completions, sleep
MPPoll ==
    /\ pc = "mp_poll"
    /\ \E obs \in [InFlight -> {"pending", "ok", "err"}] :
       \E s \in {poll_pass([status |-> status, result |-> result, log |-> hookLog,
                               async |-> asyncResult, ram |-> available_ram,
                               cpu |-> available_cpu, lock |-> multi_cpu_lock],
                              1, obs)} :
          \E to_remove \in {{i \in 1..Len(running) : obs[running[i]] # "pending"}} :
             /\ status' = s.status
             /\ result' = s.result
             /\ hookLog' = s.log
             /\ asyncResult' = s.async
             /\ available_ram' = s.ram
             /\ available_cpu' = s.cpu
             /\ multi_cpu_lock' = s.lock
             /\ IF to_remove # {}
                THEN /\ running' = remove_done(running, to_remove)
                     /\ jobStatus' = update_jobs(jobs, s.status, jobStatus)
                     /\ IF run_all_done(running', jobs, s.status)
                        THEN /\ pc' = "idle"
                             /\ ready' = {}
                        ELSE /\ ready' = iter_ready(jobs, s.status)
                             /\ pc' = IF ready' = {} THEN "mp_poll" ELSE "mp_dispatch"
                ELSE /\ pc' = "mp_sleep"
                     /\ UNCHANGED <<running, jobStatus, ready>>
    /\ UNCHANGED <<inputVars, graphVars, jobs, errorMessage, jobIter, curJob, curTask, runs>>

\* run_all: time.sleep(.1) is over, the loop starts its next pass
MPSleepDone ==
    /\ pc = "mp_sleep"
    /\ ready' = iter_ready(jobs, status)
    /\ pc' = IF ready' = {} THEN "mp_poll" ELSE "mp_dispatch"
    /\ UNCHANGED <<inputVars, graphVars, jobs, jobStatus, errorMessage, status, result,
                   running, ledgerVars, asyncResult, jobIter, curJob, curTask,
                   hookLog, runs>>

Next ==
    \/ \E J \in SUBSET Jobs : Run(J)
    \/ \E j \in Jobs : SeqNextJob(j)
    \/ \E t \in Tasks : SeqStartTask(t)
    \/ SeqTaskOk
    \/ SeqTaskErr
    \/ SeqJobDone
    \/ SeqReturn
    \/ \E t \in Tasks : MPDispatch(t)
    \/ MPPoll
    \/ MPSleepDone

Spec == Init /\ [][Next]_vars

\* ------------------------------------------ MultiprocessingEngine, fair
\* The MultiprocessingEngine alone, with one job of independent tasks (and
\* jobs without tasks), for the claims about what eventually happens
MPInit ==
    /\ engine = "MultiprocessingEngine"
    /\ taskJob = [t \in Tasks |-> 1]
    /\ Constructed

MPNext ==
    \/ RunIndependent(Jobs)
    \/ \E t \in Tasks : MPDispatch(t)
    \/ MPPoll
    \/ MPSleepDone

\* a polling pass in which the pool reports a worker as completed
WorkerCompletes == MPPoll /\ Len(running') < Len(running)

\* The control thread keeps running the loop of run_all (the caller need not
\* call run again), and a worker in flight is not reported pending for ever
FairSpec ==
    /\ MPInit /\ [][MPNext]_vars
    /\ WF_vars(\E t \in Tasks : MPDispatch(t))
    /\ WF_vars(MPPoll)
    /\ WF_vars(MPSleepDone)
    /\ SF_vars(WorkerCompletes)

\* ------------------------------------------------------------ properties
IsMP == engine = "MultiprocessingEngine"
IsSeq == engine = "SequentialEngine"

\* run has been called and has returned
Returned == pc = "idle" /\ runs > 0

IsCpuAll(t) == resources[t].cpu = CPU_ALL
RunningTasks == {t \in Tasks : status[t] = RUNNING}

RECURSIVE SumOver(_, _)
SumOver(f, S) ==
    IF S = {} THEN 0
    ELSE LET x == CHOOSE y \in S : TRUE IN f[x] + SumOver(f, S \ {x})

\* C1: in MultiprocessingEngine, while a task admitted with cpu == CPU_ALL
\* is RUNNING no other task is RUNNING (an admission by acquire_resources
\* makes the admitted task RUNNING in the same scheduling step, so this also
\* says that no admission succeeds until the CPU_ALL task is released).
C1_CpuAllExclusive ==
    IsMP => \A t \in RunningTasks :
                IsCpuAll(t) => \A u \in Tasks \ {t} : status[u] # RUNNING

\* C2: ledger conservation in MultiprocessingEngine: available_cpu plus the
\* cpu of the RUNNING tasks that are not CPU_ALL is total_cpu, available_ram
\* plus the mem_mb of all RUNNING tasks is total_ram, and both available
\* values stay within [0, total].
C2_LedgerConservation ==
    IsMP =>
        /\ available_cpu
             + SumOver([t \in Tasks |-> resources[t].cpu],
                       {t \in RunningTasks : ~IsCpuAll(t)}) = TotalCpu
        /\ available_ram
             + SumOver([t \in Tasks |-> resources[t].mem_mb], RunningTasks)
           = TotalRam
        /\ 0 <= available_cpu /\ available_cpu <= TotalCpu
        /\ 0 <= available_ram /\ available_ram <= TotalRam

\* C2 witness: two tasks hold resources while a third has already completed
\* and released its share
C2_Witness ==
    /\ IsMP
    /\ Cardinality(RunningTasks) = 2
    /\ available_cpu < TotalCpu
    /\ available_ram < TotalRam
    /\ \E t \in Tasks : status[t] \in {FINISHED, FAILED}

\* C3: dependency ordering, in both engines: a task's status becomes RUNNING
\* only in a state where every one of its predecessors is FINISHED, and
\* while it is RUNNING they all are.
C3_DependencyOrdering ==
    /\ [](\A t \in RunningTasks : \A p \in Preds(t) : status[p] = FINISHED)
    /\ [][\A t \in Tasks :
            (status[t] # RUNNING /\ status'[t] = RUNNING)
               => \A p \in Preds(t) : status[p] = FINISHED]_vars

\* C3 witness: the last task of a chain A -> B -> C is running
C3_Witness ==
    \E a, b, c \in Tasks :
        /\ <<a, b>> \in deps /\ <<b, c>> \in deps
        /\ status[c] = RUNNING

\* C4: job status invariant: a registered job is FINISHED only if all its
\* tasks are FINISHED, and it is FAILED only if some task is not FINISHED
\* and, in particular, never while one of its tasks is still RUNNING.
C4_JobStatusInvariant ==
    \A j \in jobs :
        /\ jobStatus[j] = FINISHED => \A t \in TasksOf(j) : status[t] = FINISHED
        /\ jobStatus[j] = FAILED =>
              /\ \E t \in TasksOf(j) : status[t] # FINISHED
              /\ \A t \in TasksOf(j) : status[t] # RUNNING

\* C5: MultiprocessingEngine.run_all exits once nothing is in flight and no
\* job has a ready task: the loop never goes to sleep for another pass in
\* such a state (from there no pass can change anything).
C5_ExitsWhenQuiescent ==
    ~(IsMP /\ pc = "mp_sleep" /\ running = <<>> /\ ~has_ready(jobs, status))

\* C6: when MultiprocessingEngine.run returns, nothing is in flight, no
\* registered job has a ready or a RUNNING task, and every registered job is
\* FINISHED if all its tasks are FINISHED and FAILED otherwise.
C6_RunPostcondition ==
    (IsMP /\ Returned) =>
        /\ running = <<>>
        /\ \A j \in jobs :
            /\ get_ready_tasks(status, j) = {}
            /\ \A t \in TasksOf(j) : status[t] # RUNNING
            /\ jobStatus[j] = IF \A t \in TasksOf(j) : status[t] = FINISHED
                              THEN FINISHED ELSE FAILED

\* C6 witness: run returned with one job FINISHED and another FAILED
C6_Witness ==
    /\ IsMP /\ Returned
    /\ \E j1, j2 \in jobs :
        /\ TasksOf(j1) # {} /\ jobStatus[j1] = FINISHED
        /\ jobStatus[j2] = FAILED

InLog(t, e) == \E i \in 1..Len(hookLog[t]) : hookLog[t][i] = e

\* C7: SequentialEngine fail-fast: once a task of a job is FAILED no task of
\* that job is set RUNNING any more, resolve_task is not called for the
\* failed task, and the job is FAILED with an error_message naming the task.
C7_SeqFailFast ==
    /\ [](IsSeq => \A f \in Tasks : status[f] = FAILED =>
            /\ jobStatus[taskJob[f]] = FAILED
            /\ errorMessage[taskJob[f]] = f
            /\ ~InLog(f, "resolve_task")
            /\ \A t \in TasksOf(taskJob[f]) : status[t] # RUNNING)
    /\ [][IsSeq => \A f \in Tasks : status[f] = FAILED =>
            \A t \in TasksOf(taskJob[f]) :
                status'[t] = RUNNING => status[t] = RUNNING]_vars

\* C7 witness: a second run has returned and left alone the ready sibling
\* and the waiting dependent of a task that failed
C7_Witness ==
    /\ IsSeq /\ Returned /\ runs = 2
    /\ \E f, s, d \in Tasks :
        /\ taskJob[f] = taskJob[s] /\ <<f, d>> \in deps
        /\ status[f] = FAILED /\ status[s] = READY /\ status[d] = WAITING

RECURSIVE HasPath(_, _)
HasPath(a, b) == \E s \in Succs(a) : s = b \/ HasPath(s, b)

FailedTasks(j) == {f \in TasksOf(j) : status[f] = FAILED}

\* the task ended as its own runner's outcome says, with the result stored
OwnOutcome(x) ==
    \/ asyncResult[x] = "ok" /\ status[x] = FINISHED /\ result[x] = "value"
    \/ asyncResult[x] = "err" /\ status[x] = FAILED /\ result[x] = "error"

\* C8 as stated: when MultiprocessingEngine.run returns, for every FAILED
\* task each task of the same job without a dependency path from that task
\* was dispatched and ended FINISHED or FAILED on its own outcome.
C8_Original ==
    (IsMP /\ Returned) =>
        \A j \in jobs : \A f \in FailedTasks(j) :
            \A x \in TasksOf(j) \ {f} : ~HasPath(f, x) => OwnOutcome(x)

\* C8 amended: when MultiprocessingEngine.run returns, a job with a FAILED
\* task is FAILED and each of its tasks without a dependency path from any
\* FAILED task of the job was dispatched and ended FINISHED or FAILED on its
\* own outcome, result stored; a task in flight leaves RUNNING only through
\* its own completion.
C8_BestEffort ==
    /\ []((IsMP /\ Returned) =>
            \A j \in jobs : FailedTasks(j) # {} =>
                /\ jobStatus[j] = FAILED
                /\ \A x \in TasksOf(j) :
                      (\A f \in FailedTasks(j) : ~HasPath(f, x)) => OwnOutcome(x))
    /\ [][IsMP => \A t \in Tasks :
            (status[t] = RUNNING /\ status'[t] # RUNNING)
               => (pc = "mp_poll" /\ t \in InFlight
                   /\ OwnOutcome(t)')]_vars

\* C8 witness: run returned; a task failed, its dependent never started and
\* an independent task of the same job finished
C8_Witness ==
    /\ IsMP /\ Returned
    /\ \E f, x, d \in Tasks :
        /\ taskJob[f] = taskJob[x] /\ <<f, d>> \in deps
        /\ status[f] = FAILED /\ status[d] = WAITING
        /\ ~HasPath(f, x) /\ status[x] = FINISHED /\ result[x] = "value"

Count(L, e) == Cardinality({i \in 1..Len(L) : L[i] = e})
Pos(L, e) == IF Count(L, e) = 0 THEN 0 ELSE CHOOSE i \in 1..Len(L) : L[i] = e

\* C9: hook ordering, in both engines: for a dispatched task before_task is
\* invoked exactly once and before the status becomes RUNNING; once the task
\* has completed, FINISHED or FAILED, after_task has been invoked exactly
\* once, after the completion and before resolve_task.
C9_HookOrdering ==
    \A t \in Tasks :
        LET L == hookLog[t]
            done == IF Count(L, FINISHED) > 0 THEN Pos(L, FINISHED) ELSE Pos(L, FAILED)
        IN /\ Count(L, RUNNING) > 0 =>
                /\ Count(L, "before_task") = 1
                /\ Pos(L, "before_task") < Pos(L, RUNNING)
           /\ done > 0 =>
                /\ Count(L, "after_task") = 1
                /\ done < Pos(L, "after_task")
           /\ Count(L, "resolve_task") > 0 =>
                /\ Count(L, "after_task") = 1
                /\ Pos(L, "after_task") < Pos(L, "resolve_task")

\* C10: no silent failure: when run returns, in either engine, every task of
\* a registered job that is not FINISHED carries a captured failure in its
\* result, the tasks that were never started included.
C10_NoSilentFailure ==
    Returned => \A j \in jobs : \A t \in TasksOf(j) :
                   status[t] # FINISHED => result[t] = "error"

\* C12: CPU_ALL admission precondition in MultiprocessingEngine: a CPU_ALL
\* request is admitted only when nothing else is in flight (self.running is
\* in order of admission, so an admitted CPU_ALL task has nothing ahead of
\* it); hence two CPU_ALL tasks are never RUNNING together, a CPU_ALL task
\* never starts while an ordinary task is running, and the lock is held
\* exactly while a CPU_ALL task is in flight.
C12_CpuAllAdmission ==
    IsMP =>
        /\ \A i \in 2..Len(running) : ~IsCpuAll(running[i])
        /\ \A t, u \in RunningTasks : (IsCpuAll(t) /\ IsCpuAll(u)) => t = u
        /\ multi_cpu_lock = (\E t \in InFlight : IsCpuAll(t))

\* C12 witness: a CPU_ALL task is running and the scheduling pass has just
\* turned down a second CPU_ALL task and an ordinary one
C12_Witness ==
    /\ IsMP /\ pc = "mp_poll"
    /\ \E t, u, v \in Tasks :
        /\ IsCpuAll(t) /\ status[t] = RUNNING
        /\ IsCpuAll(u) /\ status[u] = READY
        /\ resources[v].cpu = TotalCpu /\ status[v] = FINISHED

\* C13: task failure containment: a FAILED task carries the captured error
\* as its result, in both engines; when SequentialEngine.run returns, every
\* registered job has been run to a terminal status that its own tasks
\* determine: FAILED if one of them failed, FINISHED with all of them
\* FINISHED otherwise, whatever happened in the other jobs.
C13_FailureContained ==
    /\ \A t \in Tasks : status[t] = FAILED => result[t] = "error"
    /\ (IsSeq /\ Returned) =>
          \A j \in jobs :
             IF FailedTasks(j) # {}
             THEN jobStatus[j] = FAILED
             ELSE /\ jobStatus[j] = FINISHED
                  /\ \A t \in TasksOf(j) : status[t] = FINISHED

\* C13 witness: SequentialEngine.run returned from a call that ran two jobs,
\* one of which failed while the other finished all its tasks
C13_Witness ==
    /\ IsSeq /\ Returned /\ runs = 1
    /\ \E j1, j2 \in jobs :
        /\ FailedTasks(j1) # {} /\ jobStatus[j1] = FAILED
        /\ TasksOf(j2) # {} /\ jobStatus[j2] = FINISHED
        /\ \A t \in TasksOf(j2) : status[t] = FINISHED

\* C14: SequentialEngine re-entrancy: a registered job that is FINISHED or
\* FAILED (not QUEUED when run_all reaches it) is skipped: no step changes
\* its status, its error_message, or the status, the result or the hook
\* calls of any of its tasks.
C14_SeqReentrancy ==
    [][IsSeq => \A j \in jobs : jobStatus[j] \in {FINISHED, FAILED} =>
            /\ jobStatus'[j] = jobStatus[j]
            /\ errorMessage'[j] = errorMessage[j]
            /\ \A t \in TasksOf(j) :
                  /\ status'[t] = status[t]
                  /\ result'[t] = result[t]
                  /\ hookLog'[t] = hookLog[t]]_vars

\* C14 witness: in a second call of run the loop has skipped a job that
\* failed earlier, leaving its ready task alone, and is running a task of
\* the job that is new
C14_Witness ==
    /\ IsSeq /\ runs = 2 /\ pc = "seq_run" /\ jobIter = {}
    /\ \E j \in jobs \ {curJob} :
        /\ jobStatus[j] = FAILED
        /\ \E t \in TasksOf(j) : status[t] = READY /\ hookLog[t] = <<>>

\* C15: job lifecycle, in both engines: a job with a RUNNING task is never
\* QUEUED, and a job's status changes only from QUEUED to RUNNING and from
\* RUNNING to FINISHED or FAILED, so that a terminal status never changes.
C15_JobLifecycle ==
    /\ [](\A t \in RunningTasks : jobStatus[taskJob[t]] # QUEUED)
    /\ [][\A j \in Jobs : jobStatus'[j] # jobStatus[j] =>
            \/ jobStatus[j] = QUEUED /\ jobStatus'[j] = RUNNING
            \/ jobStatus[j] = RUNNING /\ jobStatus'[j] \in {FINISHED, FAILED}]_vars

\* C17: resolve_task precondition, in both engines: resolve_task is called
\* at most once per task, and only for a task that was FINISHED at the time
\* of the call.
C17_ResolveFinishedOnce ==
    \A t \in Tasks :
        LET L == hookLog[t]
        IN /\ Count(L, "resolve_task") <= 1
           /\ Count(L, "resolve_task") = 1 =>
                 /\ Count(L, FINISHED) = 1 /\ Count(L, FAILED) = 0
                 /\ Pos(L, FINISHED) < Pos(L, "resolve_task")

\* C19: task status monotonicity, in both engines: a task is set RUNNING at
\* most once, a FINISHED or FAILED task never changes status again, and in
\* MultiprocessingEngine self.running holds exactly the RUNNING tasks, each
\* once.
C19_TaskMonotonic ==
    /\ [](/\ \A t \in Tasks : Count(hookLog[t], RUNNING) <= 1
          /\ IsMP => /\ InFlight = RunningTasks
                     /\ Len(running) = Cardinality(InFlight))
    /\ [][\A t \in Tasks :
            /\ status[t] \in {FINISHED, FAILED} => status'[t] = status[t]
            /\ (status[t] # RUNNING /\ status'[t] = RUNNING) => status[t] = READY]_vars

\* C19 witness: a second call of run has a task of a new job in flight,
\* while the task that failed in the first call and its dependent, still
\* waiting, are as that call left them
C19_Witness ==
    /\ IsMP /\ runs = 2 /\ Len(running) = 1
    /\ \E b, c \in Tasks :
        /\ status[b] = FAILED /\ jobStatus[taskJob[b]] = FAILED
        /\ <<b, c>> \in deps /\ status[c] = WAITING
        /\ taskJob[running[1]] # taskJob[b]

\* C20: ledger restored at quiescence: in every state of
\* MultiprocessingEngine with nothing in flight, available_cpu is total_cpu,
\* available_ram is total_ram and multi_cpu_lock is False.
C20_LedgerRestored ==
    (IsMP /\ running = <<>>) =>
        /\ available_cpu = TotalCpu
        /\ available_ram = TotalRam
        /\ multi_cpu_lock = FALSE

\* C20 witness: run returned after a CPU_ALL task failed and an ordinary
\* task finished
C20_Witness ==
    /\ IsMP /\ Returned /\ running = <<>>
    /\ \E t, u \in Tasks :
        /\ IsCpuAll(t) /\ status[t] = FAILED
        /\ ~IsCpuAll(u) /\ status[u] = FINISHED

\* two ordinary (non-CPU_ALL) requests that do not fit together in total_cpu
Contended(a, b) ==
    /\ a # b /\ ~IsCpuAll(a) /\ ~IsCpuAll(b)
    /\ resources[a].cpu + resources[b].cpu > TotalCpu

\* the request of t fits the machine when nothing else is running
Satisfiable(t) ==
    resources[t].mem_mb <= TotalRam /\ resources[t].cpu <= TotalCpu

\* the worker of t has completed: t is FINISHED, or FAILED if the worker raised
Completed(t) ==
    \/ status[t] = FINISHED /\ asyncResult[t] = "ok"
    \/ status[t] = FAILED /\ asyncResult[t] = "err"

\* the task has been in the ready frontier (no task goes back to WAITING)
Released(t) == status[t] # WAITING

\* C11 as stated: two tasks whose ordinary cpu requests sum to more than
\* total_cpu are never RUNNING together, and once both are ready both are
\* eventually run to completion (workers eventually complete).  A task that
\* has left WAITING never returns to it and a completed task stays
\* completed, so "once both are ready, eventually both have completed" is
\* "again and again, every such pair that has been released has completed".
C11_Original ==
    /\ [](\A a, b \in Tasks :
            Contended(a, b) => ~(status[a] = RUNNING /\ status[b] = RUNNING))
    /\ []<>(\A a, b \in Tasks :
              (Contended(a, b) /\ Released(a) /\ Released(b))
                 => (Completed(a) /\ Completed(b)))

\* C11 amended: two tasks whose ordinary cpu requests sum to more than
\* total_cpu are never RUNNING together, and, when each request alone fits
\* within total_cpu and total_ram, once both are ready both are eventually
\* run to completion (workers eventually complete).
C11_Contention ==
    /\ [](\A a, b \in Tasks :
            Contended(a, b) => ~(status[a] = RUNNING /\ status[b] = RUNNING))
    /\ [][\A t \in Tasks :
            /\ Released(t) => Released(t)'
            /\ Completed(t) => Completed(t)']_vars
    /\ []<>(\A a, b \in Tasks :
              (/\ Contended(a, b) /\ Satisfiable(a) /\ Satisfiable(b)
               /\ Released(a) /\ Released(b))
                 => (Completed(a) /\ Completed(b)))

\* C11 witness: of two contended tasks one has finished and the other is
\* running, together with a third task whose request fits beside it
C11_Witness ==
    /\ IsMP
    /\ \E a, b, c \in Tasks :
        /\ Contended(a, b) /\ Satisfiable(a) /\ Satisfiable(b)
        /\ status[a] = FINISHED /\ status[b] = RUNNING
        /\ c # b /\ ~IsCpuAll(c) /\ status[c] = RUNNING
        /\ resources[b].cpu + resources[c].cpu <= TotalCpu
        /\ resources[b].mem_mb + resources[c].mem_mb <= TotalRam

\* the request of t is turned down whatever else is running
Starved(t) == ~Satisfiable(t) /\ status[t] = READY

\* C16: starvation without crash in MultiprocessingEngine: a ready task
\* whose request can never be satisfied is never admitted (no hook call, no
\* status write), stays READY in every later state, its rejected attempts
\* leave the ledger alone and run_all never returns; the other ready tasks,
\* whose requests can be satisfied, are all eventually run to completion.
C16_Starvation ==
    /\ [](\A t \in Tasks : Starved(t) => (hookLog[t] = <<>> /\ pc # "idle"))
    /\ [][\A t \in Tasks : Starved(t) =>
            /\ Starved(t)'
            /\ (t \in ready /\ t \notin ready') => UNCHANGED ledgerVars]_vars
    /\ []<>((\E t \in Tasks : Starved(t)) =>
              \A u \in Tasks : (Satisfiable(u) /\ Released(u)) => Completed(u))

\* C16 witness: the loop sleeps with nothing in flight, every other task
\* completed, and a task still READY that asks for more cores than there are
C16_Witness ==
    /\ IsMP /\ pc = "mp_sleep" /\ running = <<>>
    /\ \E t \in Tasks :
        /\ Starved(t) /\ resources[t].cpu > TotalCpu
        /\ \A u \in Tasks \ {t} : Completed(u)
        /\ \E u \in Tasks : status[u] = FAILED

\* C18: rejected admission has no effect: a scheduling step that visits a
\* ready task without making it RUNNING leaves available_ram, available_cpu,
\* multi_cpu_lock, every task's status, the hook calls and the in-flight
\* list as they were; the task stays READY and is in the snapshot of a later
\* pass, which visits every task of its snapshot.
C18_RejectedNoEffect ==
    /\ [][\A t \in Tasks :
            (pc = "mp_dispatch" /\ t \in ready /\ t \notin ready'
             /\ status'[t] # RUNNING)
               => /\ UNCHANGED ledgerVars
                  /\ status' = status /\ status[t] = READY
                  /\ hookLog' = hookLog
                  /\ running' = running
                  /\ asyncResult' = asyncResult]_vars
    /\ []<>(\A t \in Tasks :
              status[t] = READY => (pc = "mp_dispatch" /\ t \in ready))
    /\ []<>(ready = {})

\* C18 witness: a task whose request fits the machine is in the snapshot of
\* a new pass, still READY after the pass in which the others were admitted
C18_Witness ==
    /\ IsMP /\ pc = "mp_dispatch"
    /\ \E t \in ready :
        /\ Satisfiable(t) /\ status[t] = READY /\ hookLog[t] = <<>>
        /\ \E u \in Tasks : Completed(u)
        /\ running # <<>>
====
